---------------------------- MODULE Spec2Model ----------------------------
(***************************************************************************)
(* Model of the ETAGO detection API: src/app.py (image codec, detection    *)
(* adapter, annotation renderer, censor transform) and                     *)
(* src/router/detection_post.py (the three request handlers).              *)
(*                                                                         *)
(* Conventions of the model                                                *)
(*  - an image is [w, h, px, ink]: px maps <<x, y>> (0-based) to a pixel,  *)
(*    ink is the sequence of drawing calls applied on top of the pixels;   *)
(*  - a raw pixel is an RGB triple <<r, g, b>>; the pixel that             *)
(*    cv2.GaussianBlur writes at offset (i, j) of a region is the term     *)
(*    <<"GaussianBlur", region, i, j>> (a function of the whole region);   *)
(*  - box coordinates are floats in the code; the model holds them in      *)
(*    half pixels, so that int() has something to truncate;                *)
(*  - confidences are held in thousandths (926 is 0.926).                  *)
(***************************************************************************)
EXTENDS Integers, Sequences, FiniteSets, TLC

VARIABLES
    model_sample_detect,  \* app.py:14, the process-wide YOLO instance
    pc,                   \* per request: position in its handler
    mode,                 \* per request: which endpoint was called
    file,                 \* per request: the uploaded bytes
    input_image,          \* storage of the handlers' local input_image
    predict,              \* per request: the handler's local predict
    result,               \* per request: result / final_image / censored_image
    response,             \* per request: what the client receives
    trace,                \* per request: the calls made so far, in order
    fn,                   \* the library function a direct caller calls
    given_image,          \* the image as it was when passed
    given_predict,        \* the DataFrame as it was when passed
    arg_image,            \* the caller's image object
    arg_predict,          \* the caller's DataFrame object
    arg_method,           \* censor_objects' method argument
    fn_ret,               \* what the call produced: [raised, ret]
    fn_pc                 \* "ready" before the call, "returned" after

vars == <<model_sample_detect, pc, mode, file, input_image, predict,
          result, response, trace,
          fn, given_image, given_predict, arg_image, arg_predict,
          arg_method, fn_ret, fn_pc>>

reqVars == <<model_sample_detect, pc, mode, file, input_image, predict,
             result, response, trace>>
fnVars == <<fn, given_image, given_predict, arg_image, arg_predict,
            arg_method, fn_ret, fn_pc>>

---------------------------------------------------------------------------
(* Bounds *)

\* longest DataFrame the detector returns or a direct caller passes
MaxDet == 3
\* number of requests in flight
NumRequests == 2

---------------------------------------------------------------------------
(* Small helpers *)

Max(a, b) == IF a >= b THEN a ELSE b
Min(a, b) == IF a <= b THEN a ELSE b

SeqsUpTo(S, n) == UNION {[1..k -> S] : k \in 0..n}

\* Python's int() on a float: truncation toward zero.  v is in half pixels.
PyInt(v) == IF v >= 0 THEN v \div 2 ELSE -((-v) \div 2)

\* One bound of a Python/NumPy slice a:b over an axis of length n: a
\* negative bound counts from the end, then the bound is clamped to 0..n.
SliceBound(i, n) == IF i < 0 THEN Max(i + n, 0) ELSE Min(i, n)

\* The indices selected by arr[a:b] on an axis of length n.
SliceRange(a, b, n) == SliceBound(a, n) .. (SliceBound(b, n) - 1)

---------------------------------------------------------------------------
(* Images *)

NoInk == <<>>

Pixels(w, h) == (0..(w - 1)) \X (0..(h - 1))

\* A decoded picture: every pixel distinct, no pixel black, channels unequal.
Picture(w, h, tint) ==
    [w |-> w, h |-> h,
     px |-> [p \in Pixels(w, h) |-> <<p[1] + 1, p[2] + 1, tint>>],
     ink |-> NoInk]

NoImage == [w |-> 0, h |-> 0, px |-> <<>>, ink |-> NoInk]

\* [:, :, ::-1] on a pixel: channel order reversed.  GaussianBlur filters
\* each channel separately, so reversing its output is the blur of the
\* reversed region.
RECURSIVE ReverseChannels(_)
ReverseChannels(p) ==
    IF Len(p) = 3
    THEN <<p[3], p[2], p[1]>>
    ELSE <<p[1],
           [q \in DOMAIN p[2] |-> ReverseChannels(p[2][q])],
           p[3], p[4]>>

ReverseArray(a) == [q \in DOMAIN a |-> ReverseChannels(a[q])]

---------------------------------------------------------------------------
(* Image codec: app.py *)

\* The uploads of the model: one that PIL cannot identify, one valid picture.
BadFile == "not-an-image"
GoodFile == "picture-3x3"
Files == {BadFile, GoodFile}

\* Image.open(io.BytesIO(binary_image)) raises on bytes that are no image.
Decodable(binary_image) == binary_image = GoodFile

get_image_from_bytes(binary_image) == Picture(3, 3, 9)

\* image.save(return_image, format='JPEG', quality=85): a function of the
\* picture (pixels and everything drawn on it).
get_bytes_from_image(image) == <<"JPEG", 85, image>>

---------------------------------------------------------------------------
(* Detection adapter: app.py *)

\* YOLO("./models/sample_model/best.pt"): the loaded model, of which the
\* handlers read the class-id -> name mapping.
LoadedModel == [weights |-> "./models/sample_model/best.pt",
                names |-> (0 :> "person" @@ 1 :> "face" @@ 2 :> "plate")]

\* One box of results[0].boxes: xyxy in half pixels, conf in thousandths.
RawBox(xmin, ymin, xmax, ymax, conf, cls) ==
    [xyxy |-> <<xmin, ymin, xmax, ymax>>, conf |-> conf, cls |-> cls]

\* The DataFrame built from the boxes, one row per box in the boxes' order,
\* the class name looked up in labeles_dict.
transform_predict_to_df(results, labeles_dict) ==
    [k \in 1..Len(results) |->
        [xmin |-> results[k].xyxy[1], ymin |-> results[k].xyxy[2],
         xmax |-> results[k].xyxy[3], ymax |-> results[k].xyxy[4],
         confidence |-> results[k].conf,
         class |-> results[k].cls,
         name |-> labeles_dict[results[k].cls]]]

\* get_model_predict: predictions of the model, as a DataFrame.
get_model_predict(model, predictions) ==
    transform_predict_to_df(predictions, model.names)

---------------------------------------------------------------------------
(* Annotation renderer: app.py *)

\* Variant: the percentage rounded to the nearest integer.
ConfidencePercentRounded(confidence) == (confidence * 100 + 500) \div 1000

\* int(row['confidence']*100): confidence is in thousandths.
ConfidencePercent(confidence) == (confidence * 100) \div 1000

\* f"{row['name']}: {int(row['confidence']*100)}%"
LabelText(row) ==
    row.name \o ": " \o ToString(ConfidencePercent(row.confidence)) \o "%"

\* annotator.box_label(bbox, text, color=colors(row['class'], True))
BoxLabel(row) ==
    [op |-> "box_label",
     box |-> <<row.xmin, row.ymin, row.xmax, row.ymax>>,
     label |-> LabelText(row),
     color |-> <<"colors", row.class, TRUE>>]

\* One step of the sort of the xmin column: the row goes behind every row
\* whose xmin is not larger (NumPy sorts short arrays by insertion).
InsertByXmin(sorted, row) ==
    LET before == {k \in 1..Len(sorted) : sorted[k].xmin <= row.xmin}
        n == Cardinality(before)
    IN  SubSeq(sorted, 1, n) \o <<row>> \o SubSeq(sorted, n + 1, Len(sorted))

RECURSIVE SortValuesFrom(_, _, _)
SortValuesFrom(sorted, df, k) ==
    IF k > Len(df) THEN sorted
    ELSE SortValuesFrom(InsertByXmin(sorted, df[k]), df, k + 1)

\* Variant: the frame is drawn unsorted.
sort_values_skipped(df) == df

\* predict.sort_values(by=['xmin'], ascending=True): a new DataFrame.
sort_values(df) == SortValuesFrom(<<>>, df, 1)

\* What the caller's objects are after add_bboxs_on_img: np.array(image)
\* copies the pixels and sort_values returns a new frame, so both are as
\* they were.
AnnotateCallerImage(image, drawn) == image
AnnotateCallerPredict(df, sorted) == df

\* add_bboxs_on_img(image, predict): ret is the returned picture; image and
\* predict are the caller's two objects after the call.
add_bboxs_on_img(image, df) ==
    LET sorted == sort_values(df)
        draws == [k \in 1..Len(sorted) |-> BoxLabel(sorted[k])]
        drawn == [image EXCEPT !.ink = image.ink \o draws]
    IN  [raised |-> FALSE,
         ret |-> drawn,
         image |-> AnnotateCallerImage(image, drawn),
         predict |-> AnnotateCallerPredict(df, sorted)]

---------------------------------------------------------------------------
(* Censor transform: app.py *)

Methods == {"blur", "mask", "pixelate"}

\* open_cv_image[y1:y2, x1:x2]: the pixels the two slices select.
Selected(w, h, x1, y1, x2, y2) ==
    SliceRange(x1, x2, w) \X SliceRange(y1, y2, h)

\* The sub-array the slices select, re-indexed from (0, 0).
Region(a, w, h, x1, y1, x2, y2) ==
    LET x0 == SliceBound(x1, w)
        y0 == SliceBound(y1, h)
        sel == Selected(w, h, x1, y1, x2, y2)
    IN  [q \in {<<p[1] - x0, p[2] - y0>> : p \in sel} |->
            a[<<q[1] + x0, q[2] + y0>>]]

\* cv2.GaussianBlur(region, (0, 0), 10) asserts that its input is not empty.
BlurRaises(w, h, x1, y1, x2, y2) == Selected(w, h, x1, y1, x2, y2) = {}

\* The body of the loop of censor_objects for one row, on the BGR array a.
CensorRow(a, w, h, row, method) ==
    LET x1 == PyInt(row.xmin)
        y1 == PyInt(row.ymin)
        x2 == PyInt(row.xmax)
        y2 == PyInt(row.ymax)
        sel == Selected(w, h, x1, y1, x2, y2)
        x0 == SliceBound(x1, w)
        y0 == SliceBound(y1, h)
        region == Region(a, w, h, x1, y1, x2, y2)
    IN  IF method = "blur"
        THEN [p \in DOMAIN a |->
                IF p \in sel
                THEN <<"GaussianBlur", region, p[1] - x0, p[2] - y0>>
                ELSE a[p]]
        ELSE IF method = "mask"
        THEN [p \in DOMAIN a |-> IF p \in sel THEN <<0, 0, 0>> ELSE a[p]]
        ELSE a

\* The loop over predictions.iterrows(), from row k on: the array and whether
\* a call raised (the rows after a raise are not processed).
RECURSIVE CensorLoop(_, _, _, _, _, _)
CensorLoop(a, w, h, predictions, method, k) ==
    IF k > Len(predictions) THEN [raised |-> FALSE, a |-> a]
    ELSE IF /\ method = "blur"
            /\ BlurRaises(w, h, PyInt(predictions[k].xmin),
                          PyInt(predictions[k].ymin),
                          PyInt(predictions[k].xmax),
                          PyInt(predictions[k].ymax))
    THEN [raised |-> TRUE, a |-> a]
    ELSE CensorLoop(CensorRow(a, w, h, predictions[k], method),
                    w, h, predictions, method, k + 1)

\* Variant: the pixels are censored in the caller's image.
CensorCallerImageInPlace(image, censored) == censored

\* What the caller's objects are after censor_objects: np.array(...) copies
\* the pixels, the loop only reads the frame.
CensorCallerImage(image, censored) == image
CensorCallerPredict(predictions) == predictions

\* censor_objects(image, predictions, method).
censor_objects(image, predictions, method) ==
    LET open_cv_image == ReverseArray(image.px)
        loop == CensorLoop(open_cv_image, image.w, image.h,
                           predictions, method, 1)
        censored_image == [image EXCEPT !.px = ReverseArray(loop.a)]
    IN  [raised |-> loop.raised,
         ret |-> IF loop.raised THEN NoImage ELSE censored_image,
         image |-> CensorCallerImage(image, censored_image),
         predict |-> CensorCallerPredict(predictions)]

---------------------------------------------------------------------------
(* Direct calls of the two library functions, on arbitrary arguments *)

\* The boxes the direct calls are made with, on pictures 3 or 4 pixels wide:
\* inside the picture, overlapping, sharing an xmin, beyond the right and
\* bottom edge, partly and fully left of / above the picture, with a
\* fractional negative corner, and of zero width after truncation.
LibBoxes ==
    { RawBox(1, 1, 5, 5, 926, 0),
      RawBox(2, 0, 6, 4, 999, 1),
      RawBox(1, 2, 4, 6, 500, 2),
      RawBox(3, 3, 9, 9, 1000, 0),
      RawBox(-3, -3, 3, 3, 750, 1),
      RawBox(-6, -6, -2, -2, 640, 2),
      RawBox(-1, -1, 4, 4, 290, 0),
      RawBox(2, 2, 3, 5, 555, 1) }

LibFrames ==
    { transform_predict_to_df(b, LoadedModel.names) :
        b \in SeqsUpTo(LibBoxes, MaxDet) }

LibImages == {Picture(3, 3, 9), Picture(4, 2, 7)}

NoReturn == [raised |-> FALSE, ret |-> NoImage]

LibInit ==
    /\ fn \in {"add_bboxs_on_img", "censor_objects"}
    /\ given_image \in LibImages
    /\ given_predict \in LibFrames
    /\ arg_image = given_image
    /\ arg_predict = given_predict
    /\ arg_method \in (IF fn = "censor_objects" THEN Methods ELSE {"-"})
    /\ fn_ret = NoReturn
    /\ fn_pc = "ready"

CallAnnotate ==
    /\ fn = "add_bboxs_on_img"
    /\ fn_pc = "ready"
    /\ LET out == add_bboxs_on_img(arg_image, arg_predict)
       IN  /\ fn_ret' = [raised |-> out.raised, ret |-> out.ret]
           /\ arg_image' = out.image
           /\ arg_predict' = out.predict
    /\ fn_pc' = "returned"
    /\ UNCHANGED <<fn, given_image, given_predict, arg_method>>

CallCensor ==
    /\ fn = "censor_objects"
    /\ fn_pc = "ready"
    /\ LET out == censor_objects(arg_image, arg_predict, arg_method)
       IN  /\ fn_ret' = [raised |-> out.raised, ret |-> out.ret]
           /\ arg_image' = out.image
           /\ arg_predict' = out.predict
    /\ fn_pc' = "returned"
    /\ UNCHANGED <<fn, given_image, given_predict, arg_method>>

---------------------------------------------------------------------------
(* Request handlers: router/detection_post.py *)

Requests == 1..NumRequests

Modes == {"json", "img", "censored_img"}

\* What model.predict returns for the uploads of the model: nothing, one
\* box, two boxes of which the first is the right one, two boxes with the
\* same xmin, one box less than a pixel wide (and, where the bound allows
\* it, three boxes).  Boxes lie inside the picture, conf is at least 0.5.
DetectorOutputs ==
    { b \in { <<>>,
              <<RawBox(1, 1, 5, 5, 926, 0)>>,
              <<RawBox(2, 0, 6, 4, 999, 1), RawBox(1, 1, 5, 5, 926, 0)>>,
              <<RawBox(1, 1, 5, 5, 926, 0), RawBox(1, 2, 4, 6, 500, 2)>>,
              <<RawBox(2, 2, 3, 5, 555, 1)>>,
              <<RawBox(3, 3, 6, 6, 640, 2), RawBox(2, 0, 6, 4, 999, 1),
                RawBox(1, 1, 5, 5, 926, 0)>> } : Len(b) <= MaxDet }

\* Variant: input_image is a module-level variable, one for all requests.
ImageSlotShared(r) == 1

\* The handlers hold input_image in a local variable: one per request.
ImageSlot(r) == r

NoResponse == [status |-> 0]
NoResult == [none |-> TRUE]

\* An exception that leaves the handler: the handlers catch nothing and
\* raise no HTTPException, so the framework answers 500.
UnhandledException == [status |-> 500, media_type |-> "text/plain",
                       content |-> "Internal Server Error"]

\* Variant: the message is added to the initial result dictionary.
JsonNoObjectsKeepsKey ==
    [detect_objects |-> "None", message |-> "No objects detected."]

\* return {"message": "No objects detected."}
JsonNoObjects == [message |-> "No objects detected."]

\* ', '.join(objects)
RECURSIVE JoinFrom(_, _)
JoinFrom(objects, k) ==
    IF k > Len(objects) THEN ""
    ELSE IF k = Len(objects) THEN objects[k]
    ELSE objects[k] \o ", " \o JoinFrom(objects, k + 1)

\* Variant: the JSON result is built from the xmin-sorted frame.
JsonRowsSorted(df) == sort_values(df)

\* The rows the JSON result is built from: predict[['name', 'confidence']],
\* in the order of predict.
JsonRows(df) == df

\* json.loads(detect_res.to_json(orient='records')): one record per row; the
\* confidence is the number to_json prints for it (ten decimals).
ToJsonRecords(detect_res) ==
    [k \in 1..Len(detect_res) |->
        [name |-> detect_res[k].name,
         confidence |-> <<"to_json", detect_res[k].confidence>>]]

\* The dictionary of the non-empty branch of img_object_detection_to_json.
JsonResult(df) ==
    LET detect_res == JsonRows(df)
        objects == [k \in 1..Len(detect_res) |-> detect_res[k].name]
    IN  [detect_objects_names |-> JoinFrom(objects, 1),
         detect_objects |-> ToJsonRecords(detect_res)]

\* The draw.text calls of the "no objects" branch: for adj in range(-2, 3)
\* four outline texts, then the orange text.
BannerText(x, y, fill) ==
    [op |-> "text", xy |-> <<x, y>>, text |-> "NO OBJECTS DETECTED.",
     fill |-> fill]

BannerInk ==
    LET outline(adj) == << BannerText(20 + adj, 20, "black"),
                           BannerText(20, 20 + adj, "black"),
                           BannerText(20 + adj, 20 + adj, "black"),
                           BannerText(20 - adj, 20 - adj, "black") >>
    IN  outline(-2) \o outline(-1) \o outline(0) \o outline(1) \o outline(2)
        \o << BannerText(20, 20, "rgb(255, 165, 0)") >>

\* ImageDraw.Draw(input_image) draws on input_image itself.
DrawBanner(image) == [image EXCEPT !.ink = image.ink \o BannerInk]

\* StreamingResponse(content=get_bytes_from_image(image), media_type=...)
StreamingResponse(image) ==
    [status |-> 200, media_type |-> "image/jpeg",
     content |-> get_bytes_from_image(image)]

\* A returned dict is sent as the JSON body.
JsonResponse(body) ==
    [status |-> 200, media_type |-> "application/json", content |-> body]

Call(op) == [op |-> op]
Render(via, n, method) ==
    [op |-> "transform", via |-> via, n |-> n, method |-> method]

ReqInit ==
    /\ model_sample_detect = LoadedModel
    /\ pc = [r \in Requests |-> "idle"]
    /\ mode = [r \in Requests |-> "-"]
    /\ file = [r \in Requests |-> "-"]
    /\ input_image = [r \in Requests |-> NoImage]
    /\ predict = [r \in Requests |-> <<>>]
    /\ result = [r \in Requests |-> NoResult]
    /\ response = [r \in Requests |-> NoResponse]
    /\ trace = [r \in Requests |-> <<>>]

\* No direct call is made while requests are served.
NoLibCall ==
    /\ fn = "-"
    /\ given_image = NoImage
    /\ given_predict = <<>>
    /\ arg_image = NoImage
    /\ arg_predict = <<>>
    /\ arg_method = "-"
    /\ fn_ret = NoReturn
    /\ fn_pc = "-"

Init == ReqInit /\ NoLibCall

\* A client posts a file to one of the three endpoints.
Receive(r) ==
    /\ pc[r] = "idle"
    /\ \E m \in Modes, f \in Files :
        /\ mode' = [mode EXCEPT ![r] = m]
        /\ file' = [file EXCEPT ![r] = f]
    /\ pc' = [pc EXCEPT ![r] = "received"]
    /\ UNCHANGED <<model_sample_detect, input_image, predict, result,
                   response, trace, fnVars>>

\* input_image = get_image_from_bytes(file)
Decode(r) ==
    /\ pc[r] = "received"
    /\ Decodable(file[r])
    /\ input_image' = [input_image EXCEPT
                         ![ImageSlot(r)] = get_image_from_bytes(file[r])]
    /\ trace' = [trace EXCEPT ![r] = Append(@, Call("decode"))]
    /\ pc' = [pc EXCEPT ![r] = "decoded"]
    /\ UNCHANGED <<model_sample_detect, mode, file, predict, result,
                   response, fnVars>>

\* get_image_from_bytes raises: the exception leaves the handler.
DecodeFail(r) ==
    /\ pc[r] = "received"
    /\ ~Decodable(file[r])
    /\ trace' = [trace EXCEPT ![r] = Append(@, Call("decode"))]
    /\ response' = [response EXCEPT ![r] = UnhandledException]
    /\ pc' = [pc EXCEPT ![r] = "failed"]
    /\ UNCHANGED <<model_sample_detect, mode, file, input_image, predict,
                   result, fnVars>>

\* predict = detect_sample_model(input_image)
Detect(r) ==
    /\ pc[r] = "decoded"
    /\ \E predictions \in DetectorOutputs :
        /\ predict' = [predict EXCEPT
                         ![r] = get_model_predict(model_sample_detect,
                                                  predictions)]
        /\ trace' = [trace EXCEPT
                       ![r] = Append(@, [op |-> "predict",
                                          raw |-> predictions])]
    /\ pc' = [pc EXCEPT ![r] = "predicted"]
    /\ UNCHANGED <<model_sample_detect, mode, file, input_image, result,
                   response, fnVars>>

\* model.predict raises: the exception leaves the handler.
DetectFail(r) ==
    /\ pc[r] = "decoded"
    /\ trace' = [trace EXCEPT ![r] = Append(@, Call("predict"))]
    /\ response' = [response EXCEPT ![r] = UnhandledException]
    /\ pc' = [pc EXCEPT ![r] = "failed"]
    /\ UNCHANGED <<model_sample_detect, mode, file, input_image, predict,
                   result, fnVars>>

\* Variant: the test is len(predict) <= 1.
NoObjectsBelowTwo(df) == Len(df) <= 1

\* if len(predict) == 0
NoObjects(df) == Len(df) = 0

\* censor_objects(input_image, predict, method='blur')
CensoredMethod == "blur"

\* img_object_detection_to_json, after the prediction: the dictionary that
\* is returned.
JsonBuild(r) ==
    /\ pc[r] = "predicted"
    /\ mode[r] = "json"
    /\ IF NoObjects(predict[r])
       THEN /\ result' = [result EXCEPT ![r] = JsonNoObjects]
            /\ trace' = [trace EXCEPT
                           ![r] = Append(@, Render("message", 0, "-"))]
       ELSE /\ result' = [result EXCEPT ![r] = JsonResult(predict[r])]
            /\ trace' = [trace EXCEPT
                           ![r] = Append(@, Render("json",
                                                   Len(predict[r]), "-"))]
    /\ pc' = [pc EXCEPT ![r] = "transformed"]
    /\ UNCHANGED <<model_sample_detect, mode, file, input_image, predict,
                   response, fnVars>>

\* img_object_detection_to_img, the branch len(predict) == 0: the banner is
\* drawn on input_image.
ImgBanner(r) ==
    /\ pc[r] = "predicted"
    /\ mode[r] = "img"
    /\ NoObjects(predict[r])
    /\ input_image' = [input_image EXCEPT
                         ![ImageSlot(r)] = DrawBanner(@)]
    /\ trace' = [trace EXCEPT ![r] = Append(@, Render("banner", 0, "-"))]
    /\ pc' = [pc EXCEPT ![r] = "transformed"]
    /\ UNCHANGED <<model_sample_detect, mode, file, predict, result,
                   response, fnVars>>

\* img_object_detection_to_img, the else branch.
ImgAnnotate(r) ==
    /\ pc[r] = "predicted"
    /\ mode[r] = "img"
    /\ ~NoObjects(predict[r])
    /\ LET out == add_bboxs_on_img(input_image[ImageSlot(r)], predict[r])
       IN  /\ result' = [result EXCEPT ![r] = out.ret]
           /\ input_image' = [input_image EXCEPT
                                ![ImageSlot(r)] = out.image]
           /\ predict' = [predict EXCEPT ![r] = out.predict]
    /\ trace' = [trace EXCEPT
                   ![r] = Append(@, Render("add_bboxs_on_img",
                                           Len(predict[r]), "-"))]
    /\ pc' = [pc EXCEPT ![r] = "transformed"]
    /\ UNCHANGED <<model_sample_detect, mode, file, response, fnVars>>

\* Variant: the banner branch does not return, and the handler goes on to
\* censor_objects.
CensoredBannerFallsThrough(r) ==
    /\ pc[r] = "predicted"
    /\ mode[r] = "censored_img"
    /\ NoObjects(predict[r])
    /\ input_image' = [input_image EXCEPT
                         ![ImageSlot(r)] = DrawBanner(@)]
    /\ result' = [result EXCEPT
                    ![r] = censor_objects(DrawBanner(input_image[ImageSlot(r)]),
                                          predict[r], CensoredMethod).ret]
    /\ trace' = [trace EXCEPT
                   ![r] = @ \o << Render("banner", 0, "-"),
                                  Render("censor_objects", Len(predict[r]),
                                         CensoredMethod) >>]
    /\ pc' = [pc EXCEPT ![r] = "transformed"]
    /\ UNCHANGED <<model_sample_detect, mode, file, predict,
                   response, fnVars>>

\* img_object_detection_to_censored_img, the branch len(predict) == 0.
CensoredBanner(r) ==
    /\ pc[r] = "predicted"
    /\ mode[r] = "censored_img"
    /\ NoObjects(predict[r])
    /\ input_image' = [input_image EXCEPT
                         ![ImageSlot(r)] = DrawBanner(@)]
    /\ trace' = [trace EXCEPT ![r] = Append(@, Render("banner", 0, "-"))]
    /\ pc' = [pc EXCEPT ![r] = "transformed"]
    /\ UNCHANGED <<model_sample_detect, mode, file, predict, result,
                   response, fnVars>>

\* img_object_detection_to_censored_img, the else branch; an exception of
\* censor_objects leaves the handler.
CensoredCensor(r) ==
    /\ pc[r] = "predicted"
    /\ mode[r] = "censored_img"
    /\ ~NoObjects(predict[r])
    /\ LET out == censor_objects(input_image[ImageSlot(r)], predict[r],
                                 CensoredMethod)
       IN  /\ input_image' = [input_image EXCEPT
                                ![ImageSlot(r)] = out.image]
           /\ predict' = [predict EXCEPT ![r] = out.predict]
           /\ IF out.raised
              THEN /\ response' = [response EXCEPT
                                     ![r] = UnhandledException]
                   /\ pc' = [pc EXCEPT ![r] = "failed"]
                   /\ UNCHANGED result
              ELSE /\ result' = [result EXCEPT ![r] = out.ret]
                   /\ pc' = [pc EXCEPT ![r] = "transformed"]
                   /\ UNCHANGED response
    /\ trace' = [trace EXCEPT
                   ![r] = Append(@, Render("censor_objects",
                                           Len(predict[r]),
                                           CensoredMethod))]
    /\ UNCHANGED <<model_sample_detect, mode, file, fnVars>>

\* The return statement of the branch taken: the dictionary goes out as
\* JSON; the picture (input_image in the banner branch) is saved as JPEG.
Encode(r) ==
    /\ pc[r] = "transformed"
    /\ response' =
         [response EXCEPT
            ![r] = IF mode[r] = "json" THEN JsonResponse(result[r])
                   ELSE IF NoObjects(predict[r])
                   THEN StreamingResponse(input_image[ImageSlot(r)])
                   ELSE StreamingResponse(result[r])]
    /\ trace' = [trace EXCEPT ![r] = Append(@, Call("encode"))]
    /\ pc' = [pc EXCEPT ![r] = "done"]
    /\ UNCHANGED <<model_sample_detect, mode, file, input_image, predict,
                   result, fnVars>>

Next ==
    \E r \in Requests :
        \/ Receive(r)
        \/ Decode(r)
        \/ DecodeFail(r)
        \/ Detect(r)
        \/ DetectFail(r)
        \/ JsonBuild(r)
        \/ ImgBanner(r)
        \/ ImgAnnotate(r)
        \/ CensoredBanner(r)
        \/ CensoredCensor(r)
        \/ Encode(r)

Spec == Init /\ [][Next]_vars

LibSpecInit == ReqInit /\ LibInit

LibNext ==
    \/ CallAnnotate /\ UNCHANGED reqVars
    \/ CallCensor /\ UNCHANGED reqVars

LibSpec == LibSpecInit /\ [][LibNext]_vars

---------------------------------------------------------------------------
(* A request run alone *)

\* The response of the handler of endpoint m on upload f when the model
\* returns predictions and no other request is served.
RunAlone(m, f, predictions) ==
    IF ~Decodable(f) THEN UnhandledException
    ELSE
    LET image == get_image_from_bytes(f)
        df == get_model_predict(LoadedModel, predictions)
    IN  IF m = "json"
        THEN JsonResponse(IF NoObjects(df) THEN JsonNoObjects
                          ELSE JsonResult(df))
        ELSE IF NoObjects(df)
        THEN StreamingResponse(DrawBanner(image))
        ELSE IF m = "img"
        THEN StreamingResponse(add_bboxs_on_img(image, df).ret)
        ELSE LET out == censor_objects(image, df, CensoredMethod)
             IN  IF out.raised THEN UnhandledException
                 ELSE StreamingResponse(out.ret)

---------------------------------------------------------------------------
(* Properties *)

\* The request got an answer from the model, and which one.
Predicted(r) == Len(trace[r]) >= 2 /\ "raw" \in DOMAIN trace[r][2]
RawOf(r) == trace[r][2].raw

Ops(r) == [k \in 1..Len(trace[r]) |-> trace[r][k].op]

ImageModes == {"img", "censored_img"}

Bijections(n) ==
    {p \in [1..n -> 1..n] : \A i, j \in 1..n : i # j => p[i] # p[j]}

\* Every reordering of the rows of a frame.
Reorderings(df) ==
    {[k \in 1..Len(df) |-> df[p[k]]] : p \in Bijections(Len(df))}

Returned(f) == fn = f /\ fn_pc = "returned"

(***************************************************************************)
(* C1: in JSON mode, when the detector returns no detection, the response  *)
(* is exactly {"message": "No objects detected."}: the single key message, *)
(* no detect_objects and no detect_objects_names.                          *)
(***************************************************************************)
C1_JsonEmptyIsMessageOnly ==
    \A r \in Requests :
        (mode[r] = "json" /\ Predicted(r) /\ pc[r] \in {"done", "failed"}
            /\ RawOf(r) = <<>>)
        => /\ pc[r] = "done"
           /\ response[r].status = 200
           /\ DOMAIN response[r].content = {"message"}
           /\ response[r].content.message = "No objects detected."

C1_Witness ==
    \E r \in Requests :
        mode[r] = "json" /\ pc[r] = "done" /\ RawOf(r) = <<>>

(***************************************************************************)
(* C2: in JSON mode, for a non-empty detector output, detect_objects_names *)
(* is the ", "-join of the class names in the order the model returned     *)
(* the boxes, and detect_objects has one {name, confidence} record per box *)
(* in that same order; where that order differs from the ascending-xmin    *)
(* order, the response follows the model's order.                          *)
(***************************************************************************)
RECURSIVE C2_Joined(_)
C2_Joined(names) ==
    IF Len(names) = 0 THEN ""
    ELSE IF Len(names) = 1 THEN names[1]
    ELSE C2_Joined(SubSeq(names, 1, Len(names) - 1))
         \o ", " \o names[Len(names)]

C2_NamesOf(raw) == [k \in 1..Len(raw) |-> LoadedModel.names[raw[k].cls]]

C2_JsonKeepsModelOrder ==
    \A r \in Requests :
        (mode[r] = "json" /\ Predicted(r) /\ pc[r] \in {"done", "failed"}
            /\ RawOf(r) # <<>>)
        => /\ pc[r] = "done"
           /\ DOMAIN response[r].content
                = {"detect_objects_names", "detect_objects"}
           /\ response[r].content.detect_objects_names
                = C2_Joined(C2_NamesOf(RawOf(r)))
           /\ Len(response[r].content.detect_objects) = Len(RawOf(r))
           /\ \A k \in 1..Len(RawOf(r)) :
                response[r].content.detect_objects[k]
                    = [name |-> C2_NamesOf(RawOf(r))[k],
                       confidence |-> <<"to_json", RawOf(r)[k].conf>>]

\* A response whose boxes the model did not return in ascending xmin.
C2_Witness ==
    \E r \in Requests :
        /\ mode[r] = "json" /\ pc[r] = "done"
        /\ Len(RawOf(r)) >= 2
        /\ RawOf(r)[1].xyxy[1] > RawOf(r)[2].xyxy[1]
        /\ response[r].content.detect_objects[1].name
             = LoadedModel.names[RawOf(r)[1].cls]

(***************************************************************************)
(* C3: in both image modes an empty detector output always yields the      *)
(* encoded "NO OBJECTS DETECTED." banner picture and a non-empty one never *)
(* does; add_bboxs_on_img and censor_objects are never called with an      *)
(* empty frame; in censored-image mode a non-empty frame is censored with  *)
(* method blur.                                                            *)
(***************************************************************************)
C3_BannerResponse(r) ==
    [status |-> 200, media_type |-> "image/jpeg",
     content |-> <<"JPEG", 85,
                   [get_image_from_bytes(file[r]) EXCEPT !.ink = BannerInk]>>]

C5_DecodeFailureIsClientError ==
    \A r \in Requests :
        (pc[r] \notin {"idle", "received"} /\ ~Decodable(file[r]))
        => /\ pc[r] = "failed"
           /\ Ops(r) = <<"decode">>
           /\ response[r].status \in 400..499
           /\ response[r].media_type \notin {"application/json", "image/jpeg"}

(***************************************************************************)
(* C6: every successful request, in each of the three modes, has made      *)
(* exactly one decode, then one inference call, then one transform or      *)
(* render, then one encode, in that order; no request ever makes a call    *)
(* out of that order or twice.                                             *)
(***************************************************************************)
C6_Pass == <<"decode", "predict", "transform", "encode">>

C6_SinglePass ==
    \A r \in Requests :
        /\ Len(trace[r]) <= Len(C6_Pass)
        /\ Ops(r) = SubSeq(C6_Pass, 1, Len(trace[r]))
        /\ (pc[r] = "done" => Ops(r) = C6_Pass)

C6_Witness ==
    \E r, q \in Requests :
        /\ pc[r] = "done" /\ mode[r] = "censored_img" /\ RawOf(r) = <<>>
        /\ pc[q] = "done" /\ mode[q] = "json"

(***************************************************************************)
(* C7: under every interleaving of the requests, the model instance is as  *)
(* loaded, a request's image and frame are untouched before that request   *)
(* reaches them, and the response of every request is the response of the  *)
(* same endpoint run alone on the same upload and the same model output.   *)
(***************************************************************************)
C7_Isolation ==
    /\ model_sample_detect = LoadedModel
    /\ \A r \in Requests :
        /\ pc[r] \in {"idle", "received"}
           => input_image[r] = NoImage /\ predict[r] = <<>>
        /\ (pc[r] \in {"done", "failed"} /\ Predicted(r))
           => response[r] = RunAlone(mode[r], file[r], RawOf(r))
        /\ (pc[r] = "failed" /\ Len(trace[r]) = 1)
           => response[r] = RunAlone(mode[r], file[r], <<>>)

\* Two requests answered, one with the banner drawn on its picture and one
\* with boxes drawn on its own picture.
C7_Witness ==
    \E r, q \in Requests :
        /\ r # q
        /\ pc[r] = "done" /\ mode[r] \in ImageModes /\ RawOf(r) = <<>>
        /\ pc[q] = "done" /\ mode[q] = "img" /\ RawOf(q) # <<>>

(***************************************************************************)
(* C4: censor_objects with method mask, for every picture and every frame  *)
(* (overlapping boxes, boxes partly or fully outside the picture, negative *)
(* coordinates): every pixel inside some box clipped to the picture is     *)
(* (0, 0, 0) in the result, every pixel outside all clipped boxes is the   *)
(* input pixel.                                                            *)
(***************************************************************************)
C4_InClippedBox(p, row, w, h) ==
    /\ Max(PyInt(row.xmin), 0) <= p[1] /\ p[1] < Min(PyInt(row.xmax), w)
    /\ Max(PyInt(row.ymin), 0) <= p[2] /\ p[2] < Min(PyInt(row.ymax), h)

C4_Covered(p) ==
    \E k \in 1..Len(given_predict) :
        C4_InClippedBox(p, given_predict[k], given_image.w, given_image.h)

C4_MaskIsClippedBoxes ==
    (Returned("censor_objects") /\ arg_method = "mask")
    => /\ ~fn_ret.raised
       /\ \A p \in Pixels(given_image.w, given_image.h) :
            fn_ret.ret.px[p] = IF C4_Covered(p) THEN <<0, 0, 0>>
                               ELSE given_image.px[p]

\* The same statement for the frames whose truncated corners are all >= 0:
\* it holds there (boxes inside the picture, overlapping, or beyond the
\* right and bottom edge).
C4_NoNegativeCorner ==
    \A k \in 1..Len(given_predict) :
        PyInt(given_predict[k].xmin) >= 0 /\ PyInt(given_predict[k].ymin) >= 0

C4_MaskIsClippedBoxesIfNotNegative ==
    C4_NoNegativeCorner => C4_MaskIsClippedBoxes

(***************************************************************************)
(* C8: the label add_bboxs_on_img draws for a detection of confidence c is *)
(* "{class_name}: {p}%" with p = c*100 rounded to the nearest integer      *)
(* (0.999 gives 100%, 0.926 gives 93%).                                    *)
(***************************************************************************)
\* c*100 truncated, and c*100 rounded to nearest, for c in thousandths.
C8_Truncated(c) ==
    CHOOSE p \in 0..100 : p * 1000 <= c * 100 /\ c * 100 < (p + 1) * 1000
C8_Nearest(c) ==
    CHOOSE p \in 0..101 :
        p * 1000 <= c * 100 + 500 /\ c * 100 + 500 < (p + 1) * 1000

C8_Text(row, p) == row.name \o ": " \o ToString(p) \o "%"

\* Every draw call is the call for one row of the frame, each row has its
\* call, and the label is the one pct gives.
C8_LabelsAre(pct(_)) ==
    \E p \in Bijections(Len(given_predict)) :
        \A k \in 1..Len(given_predict) :
            /\ fn_ret.ret.ink[k].box
                 = << given_predict[p[k]].xmin, given_predict[p[k]].ymin,
                      given_predict[p[k]].xmax, given_predict[p[k]].ymax >>
            /\ fn_ret.ret.ink[k].label
                 = C8_Text(given_predict[p[k]],
                           pct(given_predict[p[k]].confidence))

C8_LabelIsRounded ==
    Returned("add_bboxs_on_img")
    => /\ Len(fn_ret.ret.ink) = Len(given_predict)
       /\ C8_LabelsAre(C8_Nearest)

(***************************************************************************)
(* C8 as amended: the label is "{class_name}: {p}%" with p = c*100         *)
(* truncated to an integer (0.999 gives 99%, 0.926 gives 92%).             *)
(***************************************************************************)
C8_LabelIsTruncated ==
    Returned("add_bboxs_on_img")
    => /\ Len(fn_ret.ret.ink) = Len(given_predict)
       /\ C8_LabelsAre(C8_Truncated)

C8_Witness ==
    /\ Returned("add_bboxs_on_img")
    /\ \E k \in 1..Len(given_predict) :
        /\ given_predict[k].confidence = 999
        /\ \E j \in 1..Len(fn_ret.ret.ink) :
            fn_ret.ret.ink[j].label = "face: 99%"
    /\ \E k \in 1..Len(given_predict) : given_predict[k].confidence = 926

(***************************************************************************)
(* C9: add_bboxs_on_img draws every detection exactly once, in ascending   *)
(* order of xmin, and the sequence of draw calls depends on the contents   *)
(* of the frame only: frames with the same rows give the same sequence of  *)
(* (box, label, colour) calls, also when rows share an xmin.               *)
(***************************************************************************)
C9_DrawnOnceAscending ==
    /\ Len(fn_ret.ret.ink) = Len(given_predict)
    /\ \E p \in Bijections(Len(given_predict)) :
        \A k \in 1..Len(given_predict) :
            fn_ret.ret.ink[k] = BoxLabel(given_predict[p[k]])
    /\ \A k \in 1..(Len(fn_ret.ret.ink) - 1) :
        fn_ret.ret.ink[k].box[1] <= fn_ret.ret.ink[k + 1].box[1]

C9_SameForEveryRowOrder ==
    \A df \in Reorderings(given_predict) :
        add_bboxs_on_img(given_image, df).ret.ink = fn_ret.ret.ink

C9_DrawsDependOnContentsOnly ==
    Returned("add_bboxs_on_img")
    => C9_DrawnOnceAscending /\ C9_SameForEveryRowOrder

(***************************************************************************)
(* C9 as amended: add_bboxs_on_img draws every detection exactly once, in  *)
(* ascending order of xmin; the sequence of draw calls depends on the      *)
(* contents of the frame only when no two different rows share an xmin     *)
(* (rows sharing an xmin are drawn in an order that follows the order of   *)
(* the rows in the frame).                                                 *)
(***************************************************************************)
C9_NoTie ==
    \A i, j \in 1..Len(given_predict) :
        (given_predict[i].xmin = given_predict[j].xmin)
        => given_predict[i] = given_predict[j]

C9_DrawsAscendingTiesByRowOrder ==
    Returned("add_bboxs_on_img")
    => /\ C9_DrawnOnceAscending
       /\ (C9_NoTie => C9_SameForEveryRowOrder)

\* Three rows: two different ones with the same xmin, and one that the sort
\* has to move.
C9_Witness ==
    /\ Returned("add_bboxs_on_img")
    /\ Len(given_predict) = 3
    /\ given_predict[1].xmin > given_predict[2].xmin
    /\ given_predict[2].xmin = given_predict[3].xmin
    /\ given_predict[2] # given_predict[3]
    /\ fn_ret.ret.ink[1] = BoxLabel(given_predict[2])
    /\ fn_ret.ret.ink[3] = BoxLabel(given_predict[1])

(***************************************************************************)
(* C10: add_bboxs_on_img and censor_objects work on a copy: after the call *)
(* the caller's picture and the caller's frame (rows and row order) are as *)
(* passed, for every picture, frame and censor method; censor_objects with *)
(* an empty frame returns a picture equal to its input, pixel by pixel.    *)
(***************************************************************************)
C10_CallerObjectsUntouched ==
    (fn_pc = "returned")
    => /\ arg_image = given_image
       /\ arg_predict = given_predict
       /\ (fn = "censor_objects" /\ given_predict = <<>>)
          => /\ ~fn_ret.raised
             /\ fn_ret.ret.w = given_image.w
             /\ fn_ret.ret.h = given_image.h
             /\ \A p \in Pixels(given_image.w, given_image.h) :
                    fn_ret.ret.px[p] = given_image.px[p]

\* A call that censored something: the returned picture differs from the
\* one passed.
C10_Witness ==
    /\ Returned("censor_objects")
    /\ arg_method = "blur"
    /\ Len(given_predict) >= 2
    /\ ~fn_ret.raised
    /\ \E p \in Pixels(given_image.w, given_image.h) :
        Len(fn_ret.ret.px[p]) # 3

=============================================================================
